---- MODULE Spec2Model ----
(***************************************************************************)
(* A model of bib-merger.py: merge_bib_files and the two consistency       *)
(* checks it calls.  The state after construction is the state at line     *)
(* 298: every input file parsed and its records inserted in all_entries.   *)
(***************************************************************************)
EXTENDS Integers, Sequences, FiniteSets, TLC

\* ---------------------------------------------------------------- bounds
\* records in all input files together
MaxRecords == 3

\* the two input files that the command line requires at least (line 370)
Sources == {0, 1}

Keys == {"ka", "kb"}
Types == {"article", "book"}
NoTitle == "None"
RawTitles == {"A", "a", "b"}
Titles == RawTitles \cup {NoTitle}
NoKey == "-"

\* float('inf') of get_file_index
Inf == 1000000

\* ------------------------------------------------------- pure functions
\* str.lower() on the titles of the model
Lower(t) == CASE t = "A" -> "a" [] OTHER -> t

\* the titles after lower()
NormTitles == {Lower(t) : t \in RawTitles}

\* truthiness of entry['title'] (None and the empty string are falsy)
Truthy(t) == t # NoTitle

\* entry['title'].lower() if entry['title'] else None
NormTitle(e) == IF Truthy(e.title) THEN Lower(e.title) ELSE NoTitle

\* key.split('_'): the keys of the model hold no '_'
KeyParts(k) == <<k>>

\* get_file_index(entry): decoded from the entry's key, not from its source
get_file_index(e) ==
    LET key_parts == KeyParts(e.key)
    IN  IF Len(key_parts) >= 2 THEN key_parts[Len(key_parts) - 1] ELSE Inf

\* the ranks of Python's string order on the values of the model
TitleRank(t) == CASE t = NoTitle -> 0 [] t = "a" -> 1 [] OTHER -> 2
TypeRank(ty) == CASE ty = "article" -> 0 [] OTHER -> 1
KeyRank(k) == CASE k = "ka" -> 0 [] k = "kb" -> 1 [] OTHER -> 2

\* a record as parse_bib_file returns it: entry.get('skip', False) is False
ParsedEntry == [key : Keys, type : Types, title : Titles, src : Sources, skip : {FALSE}]

Perms(S) == {p \in [1 .. Cardinality(S) -> S] : \A a, b \in 1 .. Cardinality(S) : p[a] = p[b] => a = b}

VARIABLES
    interactive,          \* not args.no_interactive
    hash_order,           \* iteration order of a set of str in this process; <<>> until a set is iterated
    all_entries,          \* dict values in insertion order; the index is the handle
    pc,
    a_reports,            \* warnings printed by check_same_title_different_keys
    b_reports,            \* warnings printed by check_same_key_different_titles
    b_idx,                \* position in entries_by_key / entries_by_type
    b_has_issues,         \* has_issues local to check_same_key_different_titles
    key_to_chosen_entry,
    has_issues,           \* has_issues of merge_bib_files
    m_idx,                \* position of the merge loop in all_entries.values()
    title_to_chosen_key,
    merged_entries,       \* dict items in insertion order: [key, entry]
    walked,               \* per record: how the merge loop treated it and its key at line 343
    prompts,              \* input() prompts answered, per conflict key; keep_all: the empty answers
    output                \* records written, in order

vars == <<interactive, hash_order, all_entries, pc, a_reports, b_reports, b_idx,
          b_has_issues, key_to_chosen_entry, has_issues, m_idx, title_to_chosen_key,
          merged_entries, walked, prompts, output>>

N == Len(all_entries)
Idx == 1 .. N

\* next(e for e in all_entries.values() if e['key'] == k)
FirstWithKey(k) == CHOOSE i \in Idx : all_entries[i].key = k /\ \A j \in 1 .. (i - 1) : all_entries[j].key # k

\* ------------------------------------------------------------------ Init
\* parse loop of merge_bib_files: the files in order, each a dict keyed by key
WellFormedInput(s) ==
    /\ \A i \in 1 .. (Len(s) - 1) : s[i].src <= s[i + 1].src
    /\ \A i, j \in 1 .. Len(s) : (i # j /\ s[i].src = s[j].src) => s[i].key # s[j].key

Init ==
    /\ interactive \in BOOLEAN
    /\ hash_order = <<>>
    /\ \E n \in 0 .. MaxRecords : all_entries \in {s \in [1 .. n -> ParsedEntry] : WellFormedInput(s)}
    /\ pc = "checkA"
    /\ a_reports = [same |-> {}, cross |-> {}]
    /\ b_reports = {}
    /\ b_idx = 1
    /\ b_has_issues = FALSE
    /\ key_to_chosen_entry = [k \in Keys |-> 0]
    /\ has_issues = FALSE
    /\ m_idx = 1
    /\ title_to_chosen_key = [tt \in Types \X NormTitles |-> NoKey]
    /\ merged_entries = <<>>
    /\ walked = [i \in DOMAIN all_entries |-> [how |-> "no", key |-> NoKey]]
    /\ prompts = [title |-> [tt \in Types \X NormTitles |-> 0], key |-> [g \in Keys \X Types |-> 0], keep_all |-> {}]
    /\ output = <<>>

\* ------------------------------------------- check_same_title_different_keys
\* the type found at lines 95 and 119: that of the first record of any file
\* that has this key (input files are named *.bib, as in the usage line)
TypeForKey(k) == all_entries[FirstWithKey(k)].type

\* titles_to_keys_by_file[f][t], built at lines 286-295
titles_to_keys(f, t) ==
    {all_entries[i].key : i \in {j \in Idx : /\ all_entries[j].src = f
                                             /\ Truthy(all_entries[j].title)
                                             /\ Lower(all_entries[j].title) = t}}

\* lines 90-113: titles_to_keys_by_type[ty][t] of file f has more than one key
SameSourceConflicts ==
    {c \in Sources \X Types \X NormTitles :
        Cardinality({k \in titles_to_keys(c[1], c[3]) : TypeForKey(k) = c[2]}) > 1}

\* lines 115-137: all_titles_to_keys[ty][t] has more than one distinct key
CrossSourceConflicts ==
    {c \in Types \X NormTitles :
        Cardinality({k \in UNION {titles_to_keys(f, c[2]) : f \in Sources} : TypeForKey(k) = c[1]}) > 1}

check_same_title_different_keys ==
    /\ pc = "checkA"
    /\ a_reports' = [same |-> SameSourceConflicts, cross |-> CrossSourceConflicts]
    /\ has_issues' = (has_issues \/ SameSourceConflicts # {} \/ CrossSourceConflicts # {})
    /\ pc' = "checkB"
    /\ UNCHANGED <<interactive, hash_order, all_entries, b_reports, b_idx, b_has_issues,
                   key_to_chosen_entry, m_idx, title_to_chosen_key, merged_entries,
                   walked, prompts, output>>

\* ------------------------------------------- check_same_key_different_titles
IdxSeq == [i \in Idx |-> i]

\* the first record of each (key, type) group
GroupFirsts ==
    {i \in Idx : \A j \in 1 .. (i - 1) :
                     ~(all_entries[j].key = all_entries[i].key /\ all_entries[j].type = all_entries[i].type)}

\* iteration order of entries_by_key.items(), then of entries_by_type.items():
\* keys in the order of their first record, types of a key likewise
GroupRank(i) == FirstWithKey(all_entries[i].key) * (N + 1) + i

\* the (key, type) groups in the order in which the loops of lines 210-217 visit them
entries_by_type ==
    LET firsts == GroupFirsts
        nth(n) == CHOOSE i \in firsts : Cardinality({j \in firsts : GroupRank(j) < GroupRank(i)}) = n - 1
    IN  [n \in 1 .. Cardinality(firsts) |-> <<all_entries[nth(n)].key, all_entries[nth(n)].type>>]

\* type_entries of one (key, type) group, in all_entries order
type_entries(g) == SelectSeq(IdxSeq, LAMBDA i : all_entries[i].key = g[1] /\ all_entries[i].type = g[2])

\* min(entries, key=get_file_index): the first of the list among the minimal
choose_entry_from_smallest_index(entries) ==
    LET n == CHOOSE a \in 1 .. Len(entries) :
                 /\ \A b \in 1 .. Len(entries) :
                        get_file_index(all_entries[entries[a]]) <= get_file_index(all_entries[entries[b]])
                 /\ \A b \in 1 .. (a - 1) :
                        get_file_index(all_entries[entries[b]]) > get_file_index(all_entries[entries[a]])
    IN  entries[n]

\* lines 230-232 and 238-240
SkipOthers(te, chosen) ==
    [j \in Idx |-> IF (\E n \in 1 .. Len(te) : te[n] = j) /\ j # chosen
                   THEN [all_entries[j] EXCEPT !.skip = TRUE]
                   ELSE all_entries[j]]

\* line 218-219
DifferentTitles(te) == Cardinality({NormTitle(all_entries[te[n]]) : n \in 1 .. Len(te)}) > 1

\* one iteration of the loop at line 217; choice 0 is the empty answer
check_same_key_different_titles ==
    /\ pc = "checkB"
    /\ b_idx <= Cardinality(GroupFirsts)
    /\ LET g == entries_by_type[b_idx]
           te == type_entries(g)
       IN  IF ~DifferentTitles(te)
           THEN UNCHANGED <<b_has_issues, b_reports, key_to_chosen_entry, all_entries, prompts>>
           ELSE /\ b_has_issues' = TRUE
                /\ b_reports' = b_reports \cup {g}
                /\ IF interactive
                   THEN IF key_to_chosen_entry[g[1]] = 0
                        THEN \E choice \in 0 .. Len(te) :
                               /\ prompts' = [prompts EXCEPT !.key[g] = @ + 1,
                                                              !.keep_all = IF choice = 0 THEN @ \cup {g} ELSE @]
                               /\ IF choice = 0
                                  THEN UNCHANGED <<key_to_chosen_entry, all_entries>>
                                  ELSE /\ key_to_chosen_entry' = [key_to_chosen_entry EXCEPT ![g[1]] = te[choice]]
                                       /\ all_entries' = SkipOthers(te, te[choice])
                        ELSE UNCHANGED <<key_to_chosen_entry, all_entries, prompts>>
                   ELSE LET chosen_entry == choose_entry_from_smallest_index(te)
                        IN  /\ key_to_chosen_entry' = [key_to_chosen_entry EXCEPT ![g[1]] = chosen_entry]
                            /\ all_entries' = SkipOthers(te, chosen_entry)
                            /\ UNCHANGED prompts
    /\ b_idx' = b_idx + 1
    /\ UNCHANGED <<interactive, hash_order, pc, a_reports, has_issues, m_idx,
                   title_to_chosen_key, merged_entries, walked, output>>

\* line 248 and the assignment of line 305
check_same_key_return ==
    /\ pc = "checkB"
    /\ b_idx > Cardinality(GroupFirsts)
    /\ has_issues' = b_has_issues
    /\ pc' = "merge"
    /\ UNCHANGED <<interactive, hash_order, all_entries, a_reports, b_reports, b_idx,
                   b_has_issues, key_to_chosen_entry, m_idx, title_to_chosen_key,
                   merged_entries, walked, prompts, output>>

\* ------------------------------------------------- merge loop, lines 309-344
\* the keys visited by the loops of lines 324-326 for a title, in order:
\* file by file, and within a file in the order of its records
Lookups(t) ==
    LET hit == SelectSeq(IdxSeq, LAMBDA j : Truthy(all_entries[j].title) /\ Lower(all_entries[j].title) = t)
    IN  [n \in 1 .. Len(hit) |-> all_entries[hit[n]].key]

\* all_keys after the loops: line 327 finds the first record with key k, of any file
all_keys(ty, t) ==
    LET visited == Lookups(t)
    IN  {k \in Keys : (\E n \in 1 .. Len(visited) : visited[n] = k) /\ TypeForKey(k) = ty}

\* the loop variable entry after the loops: line 327 assigns it on every visit
EntryAfterLookups(t) ==
    LET visited == Lookups(t)
    IN  FirstWithKey(visited[Len(visited)])

\* the order in which this process iterates a set of str depends on the hash
\* seed of the process: any order, the same one for the whole run
HashOrder(o) == o \in Perms(Keys) /\ (hash_order = <<>> \/ o = hash_order)

\* list(all_keys), and the iteration of all_keys at line 339
SetToList(S, o) == SelectSeq(o, LAMBDA k : k \in S)

\* lines 318 and 333 with the cache never consulted
NeverCached(ty, t) == FALSE

\* line 318 and line 333
Cached(ty, t) == title_to_chosen_key[<<ty, t>>] # NoKey

\* line 331 with >= in place of >
HasKeys(S) == Cardinality(S) >= 1

\* line 331
HasMultipleKeys(S) == Cardinality(S) > 1

\* line 315
Skipped(e) == e.skip

\* lines 339-341
NonInteractiveKey(S, o) ==
    LET ks == SetToList(S, o)
        entries_with_keys == [n \in 1 .. Len(ks) |-> FirstWithKey(ks[n])]
    IN  all_entries[choose_entry_from_smallest_index(entries_with_keys)].key

\* the record walked at m_idx needs an answer from get_user_choice
NeedsChoice(i) ==
    LET e == all_entries[i]
    IN  /\ ~Skipped(e)
        /\ Truthy(e.title)
        /\ ~Cached(e.type, NormTitle(e))
        /\ HasMultipleKeys(all_keys(e.type, NormTitle(e)))
        /\ interactive

InMerged(k) == \E n \in 1 .. Len(merged_entries) : merged_entries[n].key = k

\* lines 343-344
Store(k, entry) ==
    IF InMerged(k) THEN merged_entries ELSE Append(merged_entries, [key |-> k, entry |-> entry])

\* one iteration of the loop at line 309; choice is the ordinal typed at the prompt
merge_entry ==
    /\ pc = "merge"
    /\ m_idx <= N
    /\ LET i == m_idx
           e == all_entries[i]
           title == NormTitle(e)
           S == all_keys(e.type, title)
       IN  IF Skipped(e)
           THEN /\ walked' = [walked EXCEPT ![i] = [how |-> "skipped", key |-> NoKey]]
                /\ UNCHANGED <<merged_entries, title_to_chosen_key, prompts, hash_order>>
           ELSE IF Truthy(e.title) /\ Cached(e.type, title)
           THEN /\ walked' = [walked EXCEPT ![i] = [how |-> "cached", key |-> title_to_chosen_key[<<e.type, title>>]]]
                /\ merged_entries' = Store(title_to_chosen_key[<<e.type, title>>], i)
                /\ UNCHANGED <<title_to_chosen_key, prompts, hash_order>>
           ELSE IF Truthy(e.title)
           THEN IF HasMultipleKeys(S)
                THEN IF interactive
                     THEN \E choice \in 1 .. Cardinality(S), o \in Perms(Keys) :
                            LET chosen_key == SetToList(S, o)[choice]
                            IN  /\ HashOrder(o)
                                /\ hash_order' = o
                                /\ prompts' = [prompts EXCEPT !.title[<<e.type, title>>] = @ + 1]
                                /\ title_to_chosen_key' = [title_to_chosen_key EXCEPT ![<<e.type, title>>] = chosen_key]
                                /\ walked' = [walked EXCEPT ![i] = [how |-> "prompted", key |-> chosen_key]]
                                /\ merged_entries' = Store(chosen_key, EntryAfterLookups(title))
                     ELSE \E o \in Perms(Keys) :
                          /\ HashOrder(o)
                          /\ hash_order' = o
                          /\ walked' = [walked EXCEPT ![i] = [how |-> "auto", key |-> NonInteractiveKey(S, o)]]
                          /\ merged_entries' = Store(NonInteractiveKey(S, o), EntryAfterLookups(title))
                          /\ UNCHANGED <<title_to_chosen_key, prompts>>
                ELSE /\ walked' = [walked EXCEPT ![i] = [how |-> "single", key |-> e.key]]
                     /\ merged_entries' = Store(e.key, EntryAfterLookups(title))
                     /\ UNCHANGED <<title_to_chosen_key, prompts, hash_order>>
           ELSE /\ walked' = [walked EXCEPT ![i] = [how |-> "plain", key |-> e.key]]
                /\ merged_entries' = Store(e.key, i)
                /\ UNCHANGED <<title_to_chosen_key, prompts, hash_order>>
    /\ m_idx' = m_idx + 1
    /\ UNCHANGED <<interactive, all_entries, pc, a_reports, b_reports, b_idx,
                   b_has_issues, key_to_chosen_entry, has_issues, output>>

\* 'q' at the prompt of get_user_choice: sys.exit(1), nothing is written
operator_quit ==
    /\ pc = "merge"
    /\ m_idx <= N
    /\ NeedsChoice(m_idx)
    /\ pc' = "aborted"
    /\ UNCHANGED <<interactive, hash_order, all_entries, a_reports, b_reports, b_idx,
                   b_has_issues, key_to_chosen_entry, has_issues, m_idx, title_to_chosen_key,
                   merged_entries, walked, prompts, output>>

\* ------------------------------------------------- lines 346-360
SortKey(x) ==
    LET e == all_entries[x]
    IN  TitleRank(NormTitle(e)) * 100 + TypeRank(e.type) * 10 + KeyRank(e.key)

\* sorted() is stable: a record goes after the records that are not larger
RECURSIVE Sorted(_)
Sorted(s) ==
    IF Len(s) = 0 THEN <<>>
    ELSE LET head == Sorted(SubSeq(s, 1, Len(s) - 1))
             x == s[Len(s)]
             before == SelectSeq(head, LAMBDA y : SortKey(y) <= SortKey(x))
             after == SelectSeq(head, LAMBDA y : SortKey(y) > SortKey(x))
         IN  before \o <<x>> \o after

write_output ==
    /\ pc = "merge"
    /\ m_idx > N
    /\ output' = Sorted([n \in 1 .. Len(merged_entries) |-> merged_entries[n].entry])
    /\ pc' = "done"
    /\ UNCHANGED <<interactive, hash_order, all_entries, a_reports, b_reports, b_idx,
                   b_has_issues, key_to_chosen_entry, has_issues, m_idx, title_to_chosen_key,
                   merged_entries, walked, prompts>>

Next ==
    \/ check_same_title_different_keys
    \/ check_same_key_different_titles
    \/ check_same_key_return
    \/ merge_entry
    \/ operator_quit
    \/ write_output

Spec == Init /\ [][Next]_vars

\* ================================================================ claims
InOutput(i) == \E n \in 1 .. Len(output) : output[n] = i

NoPrompts ==
    /\ \A tt \in Types \X NormTitles : prompts.title[tt] = 0
    /\ \A g \in Keys \X Types : prompts.key[g] = 0

\* the input of C1: one record per source, same type and normalized title, different keys
TwoKeysOneTitle ==
    /\ N = 2
    /\ all_entries[1].src = 0 /\ all_entries[2].src = 1
    /\ all_entries[1].type = all_entries[2].type
    /\ Truthy(all_entries[1].title) /\ Truthy(all_entries[2].title)
    /\ NormTitle(all_entries[1]) = NormTitle(all_entries[2])
    /\ all_entries[1].key # all_entries[2].key

\* C1: non-interactive, source 0 and source 1 hold one record each with the same
\* type and normalized title and different identifiers: exactly one record is
\* written and it carries the identifier of the record of source 0.
C1_LowerSourceIdentifier ==
    (pc = "done" /\ ~interactive /\ TwoKeysOneTitle)
        => (Len(output) = 1 /\ all_entries[output[1]].key = all_entries[1].key)

\* records i and j of different sources with the same key and type and different normalized titles
SameKeyDifferentTitle(i, j) ==
    /\ all_entries[i].src < all_entries[j].src
    /\ all_entries[i].key = all_entries[j].key
    /\ all_entries[i].type = all_entries[j].type
    /\ NormTitle(all_entries[i]) # NormTitle(all_entries[j])

\* the title index entry of record j was visited by the loops of lines 324-326
TakesPartInGrouping(j) ==
    /\ Truthy(all_entries[j].title)
    /\ \E w \in Idx : /\ walked[w].how \in {"single", "auto", "prompted"}
                      /\ NormTitle(all_entries[w]) = NormTitle(all_entries[j])

\* C2: non-interactive, two records of different sources with the same key and
\* type and different normalized titles: the record of the lower source is in the
\* output, the other is marked skip, is not in the output, and its key and title
\* take no part in the title grouping of the merge loop.
C2_LaterRecordGone ==
    (pc = "done" /\ ~interactive)
        => \A i, j \in Idx : SameKeyDifferentTitle(i, j)
               => /\ InOutput(i)
                  /\ all_entries[j].skip
                  /\ ~InOutput(j)
                  /\ ~TakesPartInGrouping(j)

\* C3: the input is two records of different sources with the same key and
\* different types: neither check reports a conflict and both records are in the output.
C3_BothTypesSurvive ==
    (/\ pc = "done"
     /\ N = 2
     /\ all_entries[1].src # all_entries[2].src
     /\ all_entries[1].key = all_entries[2].key
     /\ all_entries[1].type # all_entries[2].type)
        => /\ a_reports.same = {} /\ a_reports.cross = {}
           /\ b_reports = {}
           /\ InOutput(1) /\ InOutput(2)

\* no two records share a key and no two records share a normalized title
NoCollisions ==
    \A i, j \in Idx : i # j =>
        /\ all_entries[i].key # all_entries[j].key
        /\ ~(/\ Truthy(all_entries[i].title) /\ Truthy(all_entries[j].title)
             /\ NormTitle(all_entries[i]) = NormTitle(all_entries[j]))

\* C4: with no key collision and no title collision every input record is
\* written exactly once, in the order of the sort key, and no prompt is issued:
\* the output is the same function of the input in both modes.
C4_NoCollisionKeepsAll ==
    (pc = "done" /\ NoCollisions)
        => /\ Len(output) = N
           /\ \A i \in Idx : InOutput(i)
           /\ \A a, b \in 1 .. Len(output) : a < b => SortKey(output[a]) < SortKey(output[b])
           /\ NoPrompts

C4_Witness ==
    /\ pc = "done" /\ NoCollisions /\ interactive
    /\ N = 2
    /\ all_entries[1].src # all_entries[2].src
    /\ Truthy(all_entries[1].title) /\ Truthy(all_entries[2].title)
    /\ Len(output) = 2

\* C5: in both modes no record marked skip is in the output, and the record
\* written for a resolved (key, type) is the chosen one.
C5_SkippedNeverWritten ==
    pc = "done"
        => /\ \A i \in Idx : all_entries[i].skip => ~InOutput(i)
           /\ \A i \in Idx :
                  (/\ InOutput(i)
                   /\ key_to_chosen_entry[all_entries[i].key] # 0
                   /\ all_entries[key_to_chosen_entry[all_entries[i].key]].type = all_entries[i].type
                   /\ <<all_entries[i].key, all_entries[i].type>> \in b_reports)
                      => key_to_chosen_entry[all_entries[i].key] = i

\* C6: interactive, the prompt of a (key, type) group answered with the empty
\* response: no record of the group is marked skip and every record of the
\* group is in the output.
C6_KeepAllKeepsAll ==
    (pc = "done" /\ interactive)
        => \A g \in prompts.keep_all : \A i \in Idx :
               (all_entries[i].key = g[1] /\ all_entries[i].type = g[2])
                   => (~all_entries[i].skip /\ InOutput(i))

\* the keys that source f holds for records of type ty with normalized title t
OwnKeys(f, ty, t) ==
    {all_entries[i].key : i \in {j \in Idx : /\ all_entries[j].src = f
                                             /\ all_entries[j].type = ty
                                             /\ Truthy(all_entries[j].title)
                                             /\ NormTitle(all_entries[j]) = t}}

\* C7: the first check reports a same-source conflict for (source, type, title)
\* exactly when the source holds two records of that type and normalized title
\* with distinct keys.
C7_SameSourceExact ==
    pc # "checkA"
        => \A c \in Sources \X Types \X NormTitles :
               (c \in a_reports.same) <=> (Cardinality(OwnKeys(c[1], c[2], c[3])) >= 2)

\* C8: at normal completion has_issues is true exactly when the first check or
\* the second check reported a conflict.
C8_FlagCoversBothChecks ==
    pc = "done"
        => (has_issues <=> (a_reports.same # {} \/ a_reports.cross # {} \/ b_reports # {}))

PromptedAtMostOnce ==
    /\ \A tt \in Types \X NormTitles : prompts.title[tt] <= 1
    /\ \A g \in Keys \X Types : prompts.key[g] <= 1

CacheStable ==
    \A tt \in Types \X NormTitles :
        title_to_chosen_key[tt] # NoKey => title_to_chosen_key'[tt] = title_to_chosen_key[tt]

CacheReused ==
    (/\ pc = "merge" /\ m_idx <= N /\ m_idx' = m_idx + 1
     /\ ~all_entries[m_idx].skip
     /\ Truthy(all_entries[m_idx].title)
     /\ title_to_chosen_key[<<all_entries[m_idx].type, NormTitle(all_entries[m_idx])>>] # NoKey)
        => /\ walked'[m_idx].key = title_to_chosen_key[<<all_entries[m_idx].type, NormTitle(all_entries[m_idx])>>]
           /\ prompts' = prompts

\* C9: in an interactive run the operator is prompted at most once per
\* (type, normalized title) and at most once per (key, type); once a
\* (type, normalized title) is answered every later record with it gets the
\* cached key as its key without a prompt, and the cached key never changes.
C9_ResolvedOnce ==
    /\ [](interactive => PromptedAtMostOnce)
    /\ [][interactive => (CacheStable /\ CacheReused)]_vars

C9_Witness ==
    /\ interactive
    /\ \E g \in Keys \X Types : prompts.key[g] = 1
    /\ \E i \in Idx :
           /\ walked[i].how = "cached"
           /\ prompts.title[<<all_entries[i].type, NormTitle(all_entries[i])>>] = 1
           /\ walked[i].key = title_to_chosen_key[<<all_entries[i].type, NormTitle(all_entries[i])>>]
           /\ walked[i].key # all_entries[i].key

\* C10: the record stored for a key is the first record that is not skipped and
\* whose key at line 343 is that key, and no record is written twice.
C10_FirstWalkedRecordKept ==
    pc = "done"
        => /\ \A n \in 1 .. Len(merged_entries) :
                  LET m == merged_entries[n]
                  IN  /\ ~all_entries[m.entry].skip
                      /\ walked[m.entry].key = m.key
                      /\ \A j \in 1 .. (m.entry - 1) : walked[j].key # m.key
           /\ \A a, b \in 1 .. Len(output) : a # b => output[a] # output[b]
====
